---------------------------- MODULE Spec2Model ----------------------------
(***************************************************************************)
(* Model of react-native-form-sheet.                                       *)
(*                                                                         *)
(* Part I  : the coordinator of src/src/ModalSheetProvider.tsx (shared     *)
(*           offset, minimum height, stack-effect flag, open / dismiss /   *)
(*           extend / minimize / setMinimumHeight, the useModalSheet hook).*)
(* Part II : the sheet instance of src/example/app/index.tsx (gesture      *)
(*           handlers, open / dismiss / expand / minimize) together with   *)
(*           the sheet-stack context it imports from './Context'.          *)
(*                                                                         *)
(* Not modelled: backdrop colour and opacity and the derived styles.       *)
(*                                                                         *)
(* Conventions.  An optional JavaScript argument is a set: {} is           *)
(* `undefined', {v} is the value v.  A shared value that is assigned an    *)
(* animation keeps its current value and records the animation's target;   *)
(* the animation runtime later delivers the final frame.  Scales are       *)
(* fixed-point numbers in units of 1/10000.                                *)
(***************************************************************************)
EXTENDS Integers, Sequences, FiniteSets

\* Dimensions.get("window").height
HEIGHT == 800
\* useSafeAreaInsets().top
Top == 30

Opt(S) == {{}} \cup {{x} : x \in S}
Val(o) == CHOOSE x \in o : TRUE
\* JavaScript truthiness of a number | undefined, as in `if (height)`
Truthy(o) == o # {} /\ o # {0}

VARIABLES
    \* ---- Part I: ModalSheetProvider.tsx
    translateY,               \* current value of the coordinator's offset
    animation,                \* {} or {target} of the animation assigned to it
    minimumHeight,
    disableSheetStackEffect,
    extendedHeight,
    lastCall,                 \* the most recent coordinator call and its arguments
    hook,                     \* outcome of the most recent useModalSheet() call
    \* ---- Part II: the sheet instances and the './Context' they share
    sheets,                   \* name -> [translateY, scaleX, borderRadius] (targets)
    modalRefs,                \* names registered with registerModal
    modalStack,               \* sequence of names, last = most recently added
    activeIndex,
    ctxY,                     \* the value last handed to updateY
    ctxDisable,               \* the context's disableSheetStackEffect (0 / 1)
    ctxMinimumHeight,         \* the context's minimumHeight
    jsQueue                   \* calls dispatched with runOnJS and not yet run

pvars == <<translateY, animation, minimumHeight, disableSheetStackEffect,
           extendedHeight, lastCall, hook>>

svars == <<sheets, modalRefs, modalStack, activeIndex, ctxY, ctxDisable,
           ctxMinimumHeight, jsQueue>>

vars == <<pvars, svars>>

----------------------------------------------------------------------------
(* Part I: the coordinator                                                 *)

\* heights the host passes to extend / minimize
Heights == {0, 200, 400, 600}
\* heights the host passes to setMinimumHeight
MinimumHeights == {200, 400}

NoCall == [op |-> "none", height |-> {}, disable |-> {}, threw |-> FALSE]
Call(op, h, d, threw) == [op |-> op, height |-> h, disable |-> d, threw |-> threw]

\* mutant: the minimum height taken for an offset
dismissValueOffByForm == minimumHeight
dismissValue == HEIGHT - minimumHeight
isAtMinimumHeight == translateY = dismissValue

\* the value the offset is heading for
OffsetTarget == IF animation # {} THEN Val(animation) ELSE translateY
Settled == animation = {}

PInit ==
    /\ translateY = HEIGHT
    /\ animation = {}
    /\ minimumHeight = HEIGHT
    /\ disableSheetStackEffect = FALSE
    /\ extendedHeight = HEIGHT
    /\ lastCall = NoCall
    /\ hook = [called |-> FALSE, inside |-> FALSE, outcome |-> "none"]

\* open(): the flag is cleared, then `withSpring' -- which the file never
\* imports -- is evaluated and raises a ReferenceError before the offset
\* is assigned.
open ==
    /\ disableSheetStackEffect' = FALSE
    /\ lastCall' = Call("open", {}, {}, TRUE)
    /\ UNCHANGED <<translateY, animation, minimumHeight, extendedHeight, hook>>

dismiss ==
    /\ animation' = {dismissValue}
    /\ lastCall' = Call("dismiss", {}, {}, FALSE)
    /\ UNCHANGED <<translateY, minimumHeight, disableSheetStackEffect,
                   extendedHeight, hook>>

extend(height, disableSheetStack) ==
    LET flag1 == IF disableSheetStack # {} THEN Val(disableSheetStack)
                 ELSE disableSheetStackEffect
    IN  /\ IF Truthy(height)
           THEN /\ animation' = {Val(height)}
                /\ extendedHeight' = Val(height)
                /\ disableSheetStackEffect' = flag1
           ELSE /\ disableSheetStackEffect' = FALSE
                /\ animation' = {Top + 20}
                /\ UNCHANGED extendedHeight
        /\ lastCall' = Call("extend", height, disableSheetStack, FALSE)
        /\ UNCHANGED <<translateY, minimumHeight, hook>>

minimize(height, disableSheetStack) ==
    LET flag1 == IF disableSheetStack # {} THEN Val(disableSheetStack)
                 ELSE disableSheetStackEffect
    IN  /\ disableSheetStackEffect' = flag1
        /\ IF Truthy(height)
           THEN /\ extendedHeight' = Val(height)
                /\ animation' = {Val(height)}
           ELSE /\ animation' = {dismissValue}
                /\ UNCHANGED extendedHeight
        /\ lastCall' = Call("minimize", height, disableSheetStack, FALSE)
        /\ UNCHANGED <<translateY, minimumHeight, hook>>

\* a plain assignment to the offset replaces whatever animation was running
setMinimumHeight(height) ==
    /\ minimumHeight' = height
    /\ translateY' = HEIGHT - height
    /\ animation' = {}
    /\ lastCall' = Call("setMinimumHeight", {height}, {}, FALSE)
    /\ UNCHANGED <<disableSheetStackEffect, extendedHeight, hook>>

\* the animation runtime delivers the last frame of the running animation
Frame ==
    /\ animation # {}
    /\ translateY' = Val(animation)
    /\ animation' = {}
    /\ UNCHANGED <<minimumHeight, disableSheetStackEffect, extendedHeight,
                   lastCall, hook>>

\* createContext(defaultValue): what useContext yields
useContext(insideProvider) == IF insideProvider THEN "provided" ELSE "default"

useModalSheetOutcome(insideProvider) ==
    IF useContext(insideProvider) = "undefined" THEN "threw" ELSE "returned"

useModalSheet(insideProvider) ==
    /\ hook' = [called |-> TRUE, inside |-> insideProvider,
                outcome |-> useModalSheetOutcome(insideProvider)]
    /\ UNCHANGED <<translateY, animation, minimumHeight, disableSheetStackEffect,
                   extendedHeight, lastCall>>

----------------------------------------------------------------------------
(* Part II: the sheet instances                                            *)
(*                                                                         *)
(* Every handler is a function from the state it starts in (a record of    *)
(* the Part II variables) and its inputs to the state it leaves; the       *)
(* action of the same name applies it.                                     *)

MaxStack == 2
MaxQueue == 1

Sheets == {"a", "b", "c"}

\* the minimizedHeight prop each sheet is rendered with
minimizedHeight(name) == IF name = "b" THEN {150} ELSE {}
\* whether each sheet is rendered with the onGestureUpdate / onGestureEnd props
onGestureUpdate(name) == name = "c"
onGestureEnd(name) == name = "c"
\* `minimizedHeight ?? 0'
OrZero(o) == IF o = {} THEN 0 ELSE Val(o)

\* the height argument of a sheet's expand / minimize
SheetHeights == {0, 150}

\* absoluteY of the touch during a drag; translationY when the drag ends
DragYs == {Top - 10, 650}
Translations == {0 - 1, 0, 1}

\* fixed-point representation of n / d
Fixed(n, d) == (n * 10000) \div d

\* interpolate(x, [x0, x1], [y0, y1], Extrapolation.CLAMP)
interpolateClamp(x, x0, x1, y0, y1) ==
    IF x1 = x0 THEN y0
    ELSE LET num == (x - x0) * (y1 - y0)
             den == x1 - x0
             v   == y0 + (IF den < 0 THEN (0 - num) \div (0 - den) ELSE num \div den)
             lo  == IF y0 <= y1 THEN y0 ELSE y1
             hi  == IF y0 <= y1 THEN y1 ELSE y0
         IN  IF v < lo THEN lo ELSE IF v > hi THEN hi ELSE v

\* the target of the animation built by animateOpen / animateClose
animateOpen(v) == v
animateClose(v) == v

\* stack[i] with a JavaScript index: {} (undefined) when i is out of range
At(stack, i) == IF i + 1 \in DOMAIN stack THEN {stack[i + 1]} ELSE {}
Names(stack) == {stack[i] : i \in DOMAIN stack}

\* the context's operations
registerModal(st, name) == [st EXCEPT !.modalRefs = @ \cup {name}]
addModalToStack(st, name) ==
    LET stack1 == Append(st.modalStack, name)
    IN  [st EXCEPT !.modalStack = stack1, !.activeIndex = Len(stack1)]
removeModalFromStack(st, name) ==
    LET stack1 == SelectSeq(st.modalStack, LAMBDA m : m # name)
    IN  [st EXCEPT !.modalStack = stack1, !.activeIndex = Len(stack1)]
updateY(st, v) == [st EXCEPT !.ctxY = v]

InitialSheet == [translateY |-> HEIGHT, scaleX |-> Fixed(1, 1), borderRadius |-> 40]

SInit ==
    /\ sheets = [n \in Sheets |-> InitialSheet]
    /\ modalRefs = {}
    /\ modalStack = <<>>
    /\ activeIndex = 0
    /\ ctxY = HEIGHT
    /\ ctxDisable = 0
    /\ ctxMinimumHeight = HEIGHT
    /\ jsQueue = <<>>

\* the state the handlers read and write; `invoked' collects the host
\* callbacks a handler calls, and is not kept between handlers
Now == [sheets |-> sheets, modalRefs |-> modalRefs, modalStack |-> modalStack,
        activeIndex |-> activeIndex, ctxY |-> ctxY, ctxDisable |-> ctxDisable,
        ctxMinimumHeight |-> ctxMinimumHeight, jsQueue |-> jsQueue,
        invoked |-> {}]

Becomes(st) ==
    /\ sheets' = st.sheets
    /\ modalRefs' = st.modalRefs
    /\ modalStack' = st.modalStack
    /\ activeIndex' = st.activeIndex
    /\ ctxY' = st.ctxY
    /\ ctxDisable' = st.ctxDisable
    /\ ctxMinimumHeight' = st.ctxMinimumHeight
    /\ jsQueue' = st.jsQueue

\* dismissValue of a sheet
sheetDismissValue(name) ==
    HEIGHT - (IF ~Truthy(minimizedHeight(name)) THEN 0 ELSE Val(minimizedHeight(name)))

\* the two effects a sheet runs when it mounts
mountEffects(st, name, disableProp) ==
    LET s1 == registerModal(st, name)
        s2 == [s1 EXCEPT !.ctxDisable = IF disableProp THEN 1 ELSE 0]
    IN  IF Truthy(minimizedHeight(name))
        THEN [s2 EXCEPT !.ctxMinimumHeight = Val(minimizedHeight(name)),
                        !.sheets[name].translateY =
                            animateClose(HEIGHT - Val(minimizedHeight(name)))]
        ELSE s2

Mount(name, disableProp) ==
    /\ name \notin modalRefs
    /\ Becomes(mountEffects(Now, name, disableProp))

setDisableSheetStackEffectF(st, value) == [st EXCEPT !.ctxDisable = value]

setDisableSheetStackEffect(value) ==
    /\ modalRefs # {}
    /\ Becomes(setDisableSheetStackEffectF(Now, value))

\* gesture.onUpdate ------------------------------------------------------

\* mutant: the override is ignored and the default behaviour runs
updateOverriddenNever(override) == FALSE
\* the override branch is taken when the host supplies onGestureUpdate
updateOverridden(override) == override

\* mutant: the sheet behind is left alone while the stack effect is disabled
updateBehindGated(st) ==
    IF st.ctxDisable = 0 THEN At(st.modalStack, st.activeIndex - 1) ELSE {}
\* the sheet onUpdate treats as the one behind
updateBehind(st) == At(st.modalStack, st.activeIndex - 1)

\* whether onUpdate hands the touch position to updateY
updateMovesContext(st) == st.ctxDisable = 0

\* what onUpdate writes to the sheet behind
behindOffset(absoluteY) ==
    interpolateClamp(absoluteY, HEIGHT, Top + 20, Top + 20, Top - 5)
behindScale(name, absoluteY) ==
    interpolateClamp(absoluteY, sheetDismissValue(name), Top + 20,
                     Fixed(1, 1), Fixed(96, 100))

onUpdateF(st, name, absoluteY, override) ==
    IF updateOverridden(override) THEN [st EXCEPT !.invoked = {"onGestureUpdate"}]
    ELSE IF absoluteY < Top THEN st
    ELSE LET s1 == [st EXCEPT !.sheets[name].translateY = absoluteY]
             s2 == IF updateMovesContext(s1) THEN updateY(s1, absoluteY) ELSE s1
             behindModalRef == updateBehind(s2)
         IN  IF behindModalRef # {}
             THEN [s2 EXCEPT
                     !.sheets[Val(behindModalRef)].translateY = behindOffset(absoluteY),
                     !.sheets[Val(behindModalRef)].scaleX = behindScale(name, absoluteY)]
             ELSE s2

onUpdate(name, absoluteY) ==
    /\ name \in modalRefs
    /\ Becomes(onUpdateF(Now, name, absoluteY, onGestureUpdate(name)))

\* gesture.onEnd ---------------------------------------------------------

\* the override branch is taken when the host supplies onGestureEnd
endOverridden(override) == override

\* mutant: a drag with no net translation opens the sheet
endOpensAtZero(translationY) == translationY <= 0
\* an upward drag ends with a negative net translation
endOpens(translationY) == translationY < 0

\* runOnJS(fn)(arg): the call is queued for the JavaScript thread
dispatch(st, fn, name) ==
    [st EXCEPT !.jsQueue = Append(@, [fn |-> fn, name |-> name])]

onEndF(st, name, translationY, override) ==
    IF endOverridden(override) THEN dispatch(st, "onGestureEnd", name)
    ELSE IF endOpens(translationY)
    THEN LET s1 == [st EXCEPT !.sheets[name].translateY = animateOpen(Top + 10)]
             s2 == IF s1.activeIndex = 0 THEN updateY(s1, animateOpen(Top + 10)) ELSE s1
         IN  dispatch(s2, "addModalToStack", name)
    ELSE LET closed == animateClose(HEIGHT - OrZero(minimizedHeight(name)))
             s1 == [st EXCEPT !.sheets[name].translateY = closed]
             s2 == updateY(s1, closed)
         IN  dispatch(s2, "removeModalFromStack", name)

onEnd(name, translationY) ==
    /\ name \in modalRefs
    /\ Len(jsQueue) < MaxQueue
    /\ Becomes(onEndF(Now, name, translationY, onGestureEnd(name)))

\* the JavaScript thread runs the oldest call dispatched with runOnJS
runOnJSF(st) ==
    LET call == Head(st.jsQueue)
        s1   == [st EXCEPT !.jsQueue = Tail(@)]
    IN  IF call.fn = "addModalToStack" THEN addModalToStack(s1, call.name)
        ELSE IF call.fn = "removeModalFromStack" THEN removeModalFromStack(s1, call.name)
        ELSE [s1 EXCEPT !.invoked = {"onGestureEnd"}]

runOnJS ==
    /\ jsQueue # <<>>
    /\ Len(runOnJSF(Now).modalStack) <= MaxStack
    /\ Becomes(runOnJSF(Now))

\* open() ----------------------------------------------------------------

\* the sheet open() treats as the one behind, read after addModalToStack
openBehind(st) == At(st.modalStack, st.activeIndex)

openF(st, name) ==
    LET s1 == [st EXCEPT !.sheets[name].translateY = animateOpen(Top + 10)]
        s2 == IF s1.activeIndex = 0 THEN updateY(s1, animateOpen(Top + 10)) ELSE s1
        s3 == addModalToStack(s2, name)
        behindModalRef == openBehind(s3)
    IN  IF behindModalRef # {}
        THEN [s3 EXCEPT !.sheets[Val(behindModalRef)] =
                            [translateY |-> animateClose(Top - 5),
                             scaleX |-> animateClose(Fixed(96, 100)),
                             borderRadius |-> animateClose(24)]]
        ELSE s3

sheetOpen(name) ==
    /\ name \in modalRefs
    /\ Len(modalStack) < MaxStack
    /\ Becomes(openF(Now, name))

\* dismiss() -------------------------------------------------------------

\* mutant: dismiss() restores the sheet below the top of the stack
dismissBehindBelowTop(st) == At(st.modalStack, st.activeIndex - 2)
\* the sheet dismiss() treats as the one behind, read before removeModalFromStack
dismissBehind(st) == At(st.modalStack, st.activeIndex - 1)

\* mutant: dismiss() forgets to take the sheet off the stack
dismissKeeps(st, name) == st
\* the last statement of dismiss()
dismissRemoves(st, name) == removeModalFromStack(st, name)

dismissF(st, name) ==
    LET closed == animateClose(HEIGHT - OrZero(minimizedHeight(name)))
        s1 == [st EXCEPT !.sheets[name].translateY = closed]
        s2 == IF s1.activeIndex = 1 THEN updateY(s1, closed) ELSE s1
        behindModalRef == dismissBehind(s2)
        s3 == IF behindModalRef # {}
              THEN [s2 EXCEPT !.sheets[Val(behindModalRef)] =
                                  [translateY |-> animateClose(Top + 20),
                                   scaleX |-> animateClose(Fixed(1, 1)),
                                   borderRadius |-> animateClose(40)]]
              ELSE s2
    IN  dismissRemoves(s3, name)

sheetDismiss(name) ==
    /\ name \in modalRefs
    /\ Becomes(dismissF(Now, name))

\* expand(height?, disableSheetEffect?) -----------------------------------
\* (expand and minimize reach open() and dismiss() through the sheet's own
\* closure; the stack they read is taken to be the context's current one)

expandF(st, name, height, disableSheetEffect) ==
    LET s1 == IF disableSheetEffect # {}
              THEN [st EXCEPT !.ctxDisable = IF Val(disableSheetEffect) THEN 1 ELSE 0]
              ELSE st
    IN  IF Truthy(height)
        THEN [s1 EXCEPT !.sheets[name].translateY = animateOpen(Val(height)),
                        !.ctxMinimumHeight = Val(height)]
        ELSE openF(s1, name)

expand(name, height, disableSheetEffect) ==
    /\ name \in modalRefs
    /\ Len(expandF(Now, name, height, disableSheetEffect).modalStack) <= MaxStack
    /\ Becomes(expandF(Now, name, height, disableSheetEffect))

\* minimize(height?) ------------------------------------------------------

minimizeF(st, name, height) ==
    LET s1 == IF st.ctxDisable # 0 THEN [st EXCEPT !.ctxDisable = 0] ELSE st
    IN  IF Truthy(height)
        THEN [s1 EXCEPT !.sheets[name].translateY = animateClose(Val(height)),
                        !.ctxMinimumHeight = Val(height)]
        ELSE dismissF(s1, name)

sheetMinimize(name, height) ==
    /\ name \in modalRefs
    /\ Becomes(minimizeF(Now, name, height))

----------------------------------------------------------------------------
Init == PInit /\ SInit

ProviderNext ==
    \/ open /\ UNCHANGED svars
    \/ dismiss /\ UNCHANGED svars
    \/ \E h \in Opt(Heights), d \in Opt(BOOLEAN) : extend(h, d) /\ UNCHANGED svars
    \/ \E h \in Opt(Heights), d \in Opt(BOOLEAN) : minimize(h, d) /\ UNCHANGED svars
    \/ \E h \in MinimumHeights : setMinimumHeight(h) /\ UNCHANGED svars
    \/ Frame /\ UNCHANGED svars
    \/ \E inside \in BOOLEAN : useModalSheet(inside) /\ UNCHANGED svars

Next ==
    \/ \E n \in Sheets, d \in BOOLEAN : Mount(n, d) /\ UNCHANGED pvars
    \/ \E v \in {0, 1} : setDisableSheetStackEffect(v) /\ UNCHANGED pvars
    \/ \E n \in Sheets, y \in DragYs : onUpdate(n, y) /\ UNCHANGED pvars
    \/ \E n \in Sheets, t \in Translations : onEnd(n, t) /\ UNCHANGED pvars
    \/ runOnJS /\ UNCHANGED pvars
    \/ \E n \in Sheets : sheetOpen(n) /\ UNCHANGED pvars
    \/ \E n \in Sheets : sheetDismiss(n) /\ UNCHANGED pvars
    \/ \E n \in Sheets, h \in Opt(SheetHeights), d \in Opt(BOOLEAN) :
          expand(n, h, d) /\ UNCHANGED pvars
    \/ \E n \in Sheets, h \in Opt(SheetHeights) : sheetMinimize(n, h) /\ UNCHANGED pvars

ProviderSpec == Init /\ [][ProviderNext]_vars
Spec == Init /\ [][Next]_vars

----------------------------------------------------------------------------
(* Claims about the coordinator (checked under ProviderSpec)               *)

\* the offset extend(height) asks for
extendRequest(height) == IF Truthy(height) THEN Val(height) ELSE Top + 20

\* C4 (as stated): once the offset requested by extend(h) is reached,
\* isAtMinimumHeight is true exactly when h equals the minimum height m.
C4_Original ==
    (lastCall.op = "extend" /\ Truthy(lastCall.height) /\ Settled)
        => (isAtMinimumHeight <=> Val(lastCall.height) = minimumHeight)

\* C4 (amended): once the offset requested by extend(h) is reached,
\* isAtMinimumHeight is true exactly when that offset equals HEIGHT - m.
C4_AtMinimumIffOffsetIsHeightMinusMinimum ==
    (lastCall.op = "extend" /\ Settled)
        => (isAtMinimumHeight <=>
                extendRequest(lastCall.height) = HEIGHT - minimumHeight)

\* extend(h) has settled with the flag true although h is not the minimum height
C4_Witness ==
    /\ lastCall.op = "extend" /\ Truthy(lastCall.height) /\ Settled
    /\ translateY = Val(lastCall.height)
    /\ minimumHeight \in MinimumHeights
    /\ Val(lastCall.height) # minimumHeight
    /\ isAtMinimumHeight

\* C5 (as stated): useModalSheet called with no enclosing provider throws
\* and never returns a set of operations.
C5_Original ==
    (hook.called /\ ~hook.inside) => hook.outcome = "threw"

\* C6 (as stated): extend(h, d) with an explicit height h >= 0 makes h the
\* offset's target and d the disable-stack-effect flag.
C6_Original ==
    (lastCall.op = "extend" /\ lastCall.height # {})
        => /\ OffsetTarget = Val(lastCall.height)
           /\ lastCall.disable # {} => disableSheetStackEffect = Val(lastCall.disable)

\* the target the most recently issued open / dismiss / extend / minimize set out for
issuedTarget ==
    IF lastCall.op = "open" THEN Top + 20
    ELSE IF lastCall.op = "extend" THEN extendRequest(lastCall.height)
    ELSE IF Truthy(lastCall.height) THEN Val(lastCall.height)
    ELSE dismissValue

\* C9 (as stated): whatever open / dismiss / extend / minimize calls were
\* issued, once no animation is left running the offset is at the target of
\* the most recently issued one.
C9_Original ==
    (lastCall.op \in {"open", "dismiss", "extend", "minimize"} /\ Settled)
        => translateY = issuedTarget

----------------------------------------------------------------------------
(* Claims about the sheets (checked under Spec)                            *)

Last(seq) == seq[Len(seq)]
\* modalStack[activeIndex - 1], the entry the gesture handlers read
belowActiveIndex == At(modalStack, activeIndex - 1)
closedOffset(name) == HEIGHT - OrZero(minimizedHeight(name))

\* C1: with no onGestureEnd override, a drag on a mounted sheet that ends
\* with translationY < 0 targets the open position and dispatches
\* addModalToStack(name); one that ends with translationY >= 0 targets
\* HEIGHT - minimizedHeight and dispatches removeModalFromStack(name); and
\* when the dispatched call runs the name is on top of the stack,
\* respectively nowhere in it.
C1_DragEndPushesOrPops ==
    /\ \A n \in modalRefs, t \in Translations :
          LET s1 == onEndF(Now, n, t, FALSE)
          IN  /\ s1.modalStack = modalStack
              /\ Len(s1.jsQueue) = Len(jsQueue) + 1
              /\ Last(s1.jsQueue).name = n
              /\ IF t < 0
                 THEN /\ s1.sheets[n].translateY = Top + 10
                      /\ Last(s1.jsQueue).fn = "addModalToStack"
                 ELSE /\ s1.sheets[n].translateY = closedOffset(n)
                      /\ Last(s1.jsQueue).fn = "removeModalFromStack"
    /\ jsQueue # <<>> =>
          LET call == Head(jsQueue)
              s2   == runOnJSF(Now)
          IN  /\ call.fn = "addModalToStack" =>
                     s2.modalStack # <<>> /\ Last(s2.modalStack) = call.name
              /\ call.fn = "removeModalFromStack" =>
                     call.name \notin Names(s2.modalStack)

\* a sheet that is on the stack has just been dragged down: it targets its
\* closed position and its removal is waiting for the JavaScript thread
C1_Witness ==
    \E n \in modalRefs :
        /\ jsQueue = <<[fn |-> "removeModalFromStack", name |-> n]>>
        /\ n \in Names(modalStack)
        /\ sheets[n].translateY = closedOffset(n)

\* C2 (as stated): for every sheet and every stack, open() followed by
\* dismiss() leaves the stack and the registry as they were.
C2_Original ==
    \A n \in modalRefs :
        LET s2 == dismissF(openF(Now, n), n)
        IN  s2.modalStack = modalStack /\ s2.modalRefs = modalRefs

\* C2 (amended): for every sheet that is not on the stack, open() followed
\* by dismiss() leaves the stack and the registry as they were.
C2_OpenDismissRestoresStack ==
    \A n \in modalRefs :
        n \notin Names(modalStack) =>
            LET s2 == dismissF(openF(Now, n), n)
            IN  s2.modalStack = modalStack /\ s2.modalRefs = modalRefs

\* a sheet was opened on top of another one and has not been dismissed yet
C2_Witness ==
    /\ Len(modalStack) = 2
    /\ modalStack[1] # modalStack[2]
    /\ sheets[modalStack[2]].translateY = Top + 10
    /\ dismissF(Now, modalStack[2]).modalStack = <<modalStack[1]>>

\* C3 (as stated): open() called while another sheet is on top of the stack
\* gives that sheet the depth effect (offset Top - 5, scaleX 0.96, border
\* radius 24) and changes the scaleX and border radius of no other sheet.
C3_Original ==
    \A n \in modalRefs :
        (modalStack # <<>> /\ Last(modalStack) # n) =>
            LET s1  == openF(Now, n)
                top == Last(modalStack)
            IN  /\ s1.sheets[top] = [translateY |-> Top - 5,
                                     scaleX |-> Fixed(96, 100),
                                     borderRadius |-> 24]
                /\ \A m \in Sheets \ {top} :
                      /\ s1.sheets[m].scaleX = sheets[m].scaleX
                      /\ s1.sheets[m].borderRadius = sheets[m].borderRadius

\* C7: a drag update with an onGestureUpdate override changes no sheet, not
\* the coordinator's offset, and calls only the override; a drag end with an
\* onGestureEnd override changes no sheet, not the coordinator's offset and
\* not the stack, and only dispatches the override -- which, when it runs,
\* changes none of them either.
C7_OverridesSkipDefaults ==
    /\ \A n \in modalRefs, y \in DragYs :
          LET s1 == onUpdateF(Now, n, y, TRUE)
          IN  /\ s1.sheets = sheets /\ s1.ctxY = ctxY
              /\ s1.modalStack = modalStack /\ s1.jsQueue = jsQueue
              /\ s1.invoked = {"onGestureUpdate"}
    /\ \A n \in modalRefs, t \in Translations :
          LET s1 == onEndF(Now, n, t, TRUE)
          IN  /\ s1.sheets = sheets /\ s1.ctxY = ctxY
              /\ s1.modalStack = modalStack
              /\ s1.jsQueue = Append(jsQueue, [fn |-> "onGestureEnd", name |-> n])
    /\ (jsQueue # <<>> /\ Head(jsQueue).fn = "onGestureEnd") =>
          LET s2 == runOnJSF(Now)
          IN  /\ s2.sheets = sheets /\ s2.ctxY = ctxY
              /\ s2.modalStack = modalStack
              /\ s2.invoked = {"onGestureEnd"}

\* an overridden drag end is waiting for the JavaScript thread in a state
\* where the default handlers would have moved the coordinator, the dragged
\* sheet and the sheet behind it
C7_Witness ==
    \E n \in modalRefs :
        /\ jsQueue = <<[fn |-> "onGestureEnd", name |-> n]>>
        /\ ctxDisable = 0
        /\ belowActiveIndex # {} /\ belowActiveIndex # {n}
        /\ onUpdateF(Now, n, 650, FALSE).sheets # sheets
        /\ onEndF(Now, n, 1, FALSE).sheets # sheets

\* C8 (as stated): with the disable-stack-effect flag set, a default drag
\* update leaves the offset and scaleX of the sheet behind unchanged.
C8_Original ==
    \A n \in modalRefs, y \in DragYs :
        (y >= Top /\ ctxDisable # 0 /\ belowActiveIndex # {} /\ belowActiveIndex # {n}) =>
            LET s1 == onUpdateF(Now, n, y, FALSE)
                b  == Val(belowActiveIndex)
            IN  /\ s1.sheets[b].translateY = sheets[b].translateY
                /\ s1.sheets[b].scaleX = sheets[b].scaleX

\* C8 (amended): on a default drag update the flag decides only whether the
\* coordinator's offset follows the touch; the sheet the handler takes for
\* the one behind (modalStack[activeIndex - 1]) gets the interpolated offset
\* and scaleX whether the flag is set or not, and no third sheet changes.
C8_FlagGatesOnlyCoordinator ==
    \A n \in modalRefs, y \in DragYs :
        y >= Top =>
            LET s1 == onUpdateF(Now, n, y, FALSE)
            IN  /\ s1.ctxY = IF ctxDisable = 0 THEN y ELSE ctxY
                /\ \A b \in belowActiveIndex :
                      /\ (Top + 20 - s1.sheets[b].translateY) * (HEIGHT - (Top + 20))
                            = (HEIGHT - y) * 25
                      /\ s1.sheets[b].scaleX = behindScale(n, y)
                      /\ s1.sheets[b].borderRadius = sheets[b].borderRadius
                /\ n \notin belowActiveIndex => s1.sheets[n].translateY = y
                /\ \A m \in Sheets \ (belowActiveIndex \cup {n}) : s1.sheets[m] = sheets[m]

\* the flag is set and a sheet has been dragged to 650 over another one,
\* which carries the interpolated offset
C8_Witness ==
    \E n \in modalRefs :
        /\ ctxDisable = 1
        /\ belowActiveIndex # {} /\ belowActiveIndex # {n}
        /\ sheets[n].translateY = 650
        /\ sheets[Val(belowActiveIndex)].translateY = 45
        /\ ctxY # 650

\* C10: with sheet A on top of the stack, open() and then dismiss() of
\* another sheet B leave A's offset, scaleX and border radius as they were
\* before B was opened, and change no sheet other than A and B.
C10_OpenDismissLeavesBehindAsItWas ==
    \A b \in modalRefs :
        (modalStack # <<>> /\ Last(modalStack) # b) =>
            LET s2 == dismissF(openF(Now, b), b)
            IN  \A m \in Sheets \ {b} : s2.sheets[m] = sheets[m]

\* three sheets are mounted, an opened sheet A is on top of the stack with
\* another one under it, and a third sheet B is there to be opened
C10_Witness ==
    /\ modalRefs = Sheets
    /\ Len(modalStack) = 2
    /\ modalStack[1] # modalStack[2]
    /\ sheets[Last(modalStack)].translateY = Top + 10
    /\ \E b \in Sheets \ Names(modalStack) :
          /\ openF(Now, b).sheets # sheets
          /\ dismissF(openF(Now, b), b).sheets # openF(Now, b).sheets

=============================================================================
